---- MODULE Spec2Model ----
(***************************************************************************)
(* A model of the two registries with message delivery of rc-patterns:     *)
(*   - src/Mediator/mediator.js : Participant and Chatroom                 *)
(*   - src/Observer/observer.js : Click (subscribe / unsubscribe / fire)   *)
(* and of the list cursor of src/Iterator/iterator.js : Iterator.           *)
(* The host is Node.js (the files end in module.exports), so `global` is   *)
(* defined and property enumeration follows OrdinaryOwnPropertyKeys.       *)
(***************************************************************************)
EXTENDS Integers, Sequences, FiniteSets, TLC

VARIABLES
    pname,          \* pname[i]: the name field of the i-th constructed Participant
    pchatroom,      \* pchatroom[i]: the chatroom field of participant i (Null or a room)
    participants,   \* participants[r]: the own properties of room r's `participants`
                    \*   object, as <<key, value>> entries in property creation order
    received,       \* the receive calls made by the latest operation, in call order
    chatErr,        \* the error the latest chatroom operation raised to its caller
    chatOp,         \* the latest chatroom operation, its arguments and the registry before it
    precv,          \* precv[i]: what the receive method of participant i does
    lastReg,        \* lastReg[r][n]: the participant register was last called with on
                    \*   room r under the name n, 0 when there was none
    lastRoom,       \* lastRoom[i]: the room register was last called on with
                    \*   participant i, Null when there was none
    handlers,       \* Click.handlers: the array of subscribed values
    calls,          \* the handler invocations made by the latest Click operation
    clickErr,       \* the error the latest Click operation raised to its caller
    clickOp,        \* the latest Click operation, its arguments and the handlers before it
    sinceUnsub,     \* sinceUnsub[f]: subscribe(f) calls since the latest unsubscribe(f)
    everUnsub,      \* the functions unsubscribe was called with so far
    items,          \* Iterator.items: the array the iterator was constructed on
    index,          \* Iterator.index
    iterOp          \* the latest Iterator operation, the index before it and its results

chatVars  == <<pname, pchatroom, participants, received, chatErr, chatOp,
               precv, lastReg, lastRoom>>
clickVars == <<handlers, calls, clickErr, clickOp, sinceUnsub, everUnsub>>
iterVars  == <<items, index, iterOp>>
vars      == <<pname, pchatroom, participants, received, chatErr, chatOp,
               precv, lastReg, lastRoom, handlers, calls, clickErr, clickOp, sinceUnsub, everUnsub,
               items, index, iterOp>>

----------------------------------------------------------------------------
(* Bounds of the model *)

MaxParticipants == 3    \* Participant objects constructed
MaxHandlers == 4        \* length of Click.handlers
MaxItems == 3           \* length of the array an Iterator is constructed on

(* Participant names are strings, modelled as tuples of characters.  "01" is *)
(* a string that looks numeric but is no canonical array index.              *)
NameList == << <<"a">>, <<"0", "1">>, <<"1">>, <<"2">> >>
Names == { NameList[i] : i \in DOMAIN NameList }
Rooms == { "r1", "r2" }
Msgs  == { "m1", "m2" }

----------------------------------------------------------------------------
(* JavaScript values that are passed as arguments *)

Undefined == [t |-> "undefined"]
Null      == [t |-> "null"]
Zero      == [t |-> "number", v |-> 0]
Ref(i)    == [t |-> "object", id |-> i]          \* a Participant object
Room(r)   == [t |-> "object", room |-> r]        \* the object a Chatroom() call returned
Fn(f)     == [t |-> "function", id |-> f]
CtxObj    == [t |-> "object", ctx |-> "scope"]   \* an object passed as thisObj
GlobalObj == [t |-> "object", ctx |-> "global"]  \* Node's global object

\* ToBoolean, as `if (to)`, `thisObj || global` and Array.prototype.filter apply it
Truthy(v) ==
    /\ v.t \notin {"undefined", "null"}
    /\ ~(v.t = "number" /\ v.v = 0)

\* IsCallable: item.call(...) raises a TypeError on anything else
Callable(v) == v.t = "function"

RECURSIVE Count(_, _)
Count(x, s) ==
    IF s = <<>> THEN 0
    ELSE (IF Head(s) = x THEN 1 ELSE 0) + Count(x, Tail(s))

----------------------------------------------------------------------------
(* The `participants` object of a Chatroom: an ordinary object used as a map *)

Keys(reg) == { reg[i][1] : i \in DOMAIN reg }

HasKey(reg, k) == k \in Keys(reg)

Get(reg, k) == reg[CHOOSE i \in DOMAIN reg : reg[i][1] = k][2]

\* participants[k] = v as an insertion at the end, whether or not k is present
PutAtEnd(reg, k, v) ==
    Append(SelectSeq(reg, LAMBDA e : e[1] # k), <<k, v>>)

\* participants[k] = v: an existing property keeps its place, a new one is created last
Put(reg, k, v) ==
    IF HasKey(reg, k)
    THEN [i \in DOMAIN reg |-> IF reg[i][1] = k THEN <<k, v>> ELSE reg[i]]
    ELSE Append(reg, <<k, v>>)

Digits == <<"0", "1", "2", "3", "4", "5", "6", "7", "8", "9">>

DigitValue(c) == (CHOOSE d \in DOMAIN Digits : Digits[d] = c) - 1

\* A canonical array index: the decimal digits of an integer, without leading
\* zeros.  (The upper limit 2^32 - 2 is beyond every name of the model.)
IsArrayIndex(k) ==
    /\ k # <<>>
    /\ \A i \in DOMAIN k : \E d \in DOMAIN Digits : Digits[d] = k[i]
    /\ (Len(k) > 1 => k[1] # "0")

RECURSIVE IndexValue(_)
IndexValue(k) ==
    IF k = <<>> THEN 0
    ELSE 10 * IndexValue(SubSeq(k, 1, Len(k) - 1)) + DigitValue(k[Len(k)])

\* the keys of reg in property creation order
CreationOrderKeys(reg) == [i \in DOMAIN reg |-> reg[i][1]]

\* for (key in participants): array-index keys in ascending numeric order, then
\* the other string keys in property creation order
ForInKeys(reg) ==
    LET all == CreationOrderKeys(reg)
        idx == SelectSeq(all, IsArrayIndex)
        str == SelectSeq(all, LAMBDA k : ~IsArrayIndex(k))
    IN  SortSeq(idx, LAMBDA x, y : IndexValue(x) < IndexValue(y)) \o str

----------------------------------------------------------------------------
(* Participant and Chatroom *)

Objs == 1 .. Len(pname)

\* The participants a program constructs, as run() does before it registers them:
\* new Participant(name) for MaxParticipants names, any of which may be equal.
\* Objects differ only by their names, so the names are listed in NameList order.
Casts ==
    LET picks == { f \in [1 .. MaxParticipants -> DOMAIN NameList] :
                     \A i, j \in 1 .. MaxParticipants : i < j => f[i] <= f[j] }
    IN  { [i \in 1 .. MaxParticipants |-> NameList[f[i]]] : f \in picks }

\* The cast of a program in which two participants share a name:
\* "a", "1", "a", "1", ...
SharedNameCast ==
    [i \in 1 .. MaxParticipants |-> IF i % 2 = 1 THEN NameList[1] ELSE NameList[3]]

\* What a participant's receive does when it is called.  Log is
\* Participant.prototype.receive; the others are receive methods a client may
\* give a participant q:
\*   Throw:            q.receive = function () { throw new Error(); }
\*   RegisterOn(r, p): q.receive = function () { r.register(p); }
\*   SendOn(r, to):    q.receive = function () { r.send("re", this, to); }
Log == [do |-> "log"]
Throw == [do |-> "throw"]
RegisterOn(r, p) == [do |-> "register", room |-> r, arg |-> p]
SendOn(r, to) == [do |-> "send", room |-> r, arg |-> to]

\* the message a receive method sends
ReplyMsg == "re"

\* one record per receive call: the recipient, the message and the sender
Receive(to, msg, from) == [to |-> to, msg |-> msg, from |-> from]

\* the fields a chatroom call reads and writes while it runs
ChatState ==
    [participants |-> participants, pchatroom |-> pchatroom,
     lastReg |-> lastReg, lastRoom |-> lastRoom,
     received |-> <<>>, err |-> "none", key |-> <<>>]

\* a registration that leaves an entry already present untouched
RegisterIfAbsent(st, r, p) ==
    [st EXCEPT !.participants[r] = IF HasKey(@, pname[p]) THEN @ ELSE Put(@, pname[p], p),
               !.pchatroom[p] = Room(r),
               !.lastReg[r][pname[p]] = p,
               !.lastRoom[p] = Room(r)]

\* a registration that sets the back-link on the first registration only
RegisterKeepLink(st, r, p) ==
    [st EXCEPT !.participants[r] = Put(@, pname[p], p),
               !.pchatroom[p] = IF @ = Null THEN Room(r) ELSE @,
               !.lastReg[r][pname[p]] = p,
               !.lastRoom[p] = Room(r)]

\* Chatroom.register(participant) on room r
RegisterIn(st, r, p) ==
    [st EXCEPT !.participants[r] = Put(@, pname[p], p),
               !.pchatroom[p] = Room(r),
               !.lastReg[r][pname[p]] = p,
               !.lastRoom[p] = Room(r)]

RECURSIVE SendCalls(_, _, _, _, _)

\* a call of receive whose exception is caught and dropped
CallReceiveIsolated(st, p, msg, from) ==
    LET st1 == [st EXCEPT !.received = Append(@, Receive(p, msg, from))]
    IN  CASE precv[p].do = "log"      -> st1
          [] precv[p].do = "throw"    -> st1
          [] precv[p].do = "register" -> RegisterIn(st1, precv[p].room, precv[p].arg)
          [] precv[p].do = "send"     ->
                SendCalls(st1, precv[p].room, ReplyMsg, p, precv[p].arg)

\* p.receive(message, from): the call is recorded and the method's body runs
CallReceive(st, p, msg, from) ==
    LET st1 == [st EXCEPT !.received = Append(@, Receive(p, msg, from))]
    IN  CASE precv[p].do = "log"      -> st1
          [] precv[p].do = "throw"    -> [st1 EXCEPT !.err = "Error"]
          [] precv[p].do = "register" -> RegisterIn(st1, precv[p].room, precv[p].arg)
          [] precv[p].do = "send"     ->
                SendCalls(st1, precv[p].room, ReplyMsg, p, precv[p].arg)

\* a test that lets every entry through
AnyEntry(entry, from) == TRUE

\* participants[key] !== from
IsNotSender(entry, from) == entry # from

\* a loop that goes on from the key the shared variable holds
KeysAfterShared(ks, st) ==
    LET at == { i \in DOMAIN ks : ks[i] = st.key }
    IN  IF at = {} THEN <<>>
        ELSE SubSeq(ks, (CHOOSE i \in at : TRUE) + 1, Len(ks))

\* for-in takes the next key from the list it made when the loop started,
\* whatever the variable key holds by then
KeysLeft(ks, st) == Tail(ks)

\* The body of for (key in participants) over the keys ks that are left.  The
\* keys were listed when the loop started.  key is not declared, so it is one
\* variable of the global object, shared by every send of every chatroom: each
\* turn assigns it, then participants[key] is read (twice, before receive is
\* called).  An exception leaves the loop.
RECURSIVE BroadcastOver(_, _, _, _, _)
BroadcastOver(ks, st, r, msg, from) ==
    IF ks = <<>> \/ st.err # "none" THEN st
    ELSE LET st0 == [st EXCEPT !.key = Head(ks)]
             entry == Get(st0.participants[r], st0.key)
             st1 == IF IsNotSender(entry, from)
                    THEN CallReceive(st0, entry, msg, from)
                    ELSE st0
         IN  BroadcastOver(KeysLeft(ks, st1), st1, r, msg, from)

\* the else branch of Chatroom.send
Broadcast(st, r, msg, from) ==
    BroadcastOver(ForInKeys(st.participants[r]), st, r, msg, from)

\* a send that looks the target's name up in the registry instead of using `to`
SendCallsByLookup(st, r, msg, from, to) ==
    IF Truthy(to)
    THEN IF HasKey(st.participants[r], pname[to.id])
         THEN CallReceive(st, Get(st.participants[r], pname[to.id]), msg, from)
         ELSE st
    ELSE Broadcast(st, r, msg, from)

\* Chatroom.send(message, from, to) on room r
SendCalls(st, r, msg, from, to) ==
    IF Truthy(to)
    THEN CallReceive(st, to.id, msg, from)
    ELSE Broadcast(st, r, msg, from)

NoOp == [op |-> "init", room |-> "r1", p |-> 0, msg |-> "m1", to |-> Undefined,
         key |-> <<>>, pre |-> <<>>]

\* chatroom.register(participant)
Register(r, p) ==
    \E out \in { RegisterIn(ChatState, r, p) } :
        /\ participants' = out.participants
        /\ pchatroom' = out.pchatroom
        /\ lastReg' = out.lastReg
        /\ lastRoom' = out.lastRoom
        /\ received' = <<>>
        /\ chatErr' = "none"
        /\ chatOp' = [NoOp EXCEPT !.op = "register", !.room = r, !.p = p,
                                  !.key = pname[p], !.pre = participants[r]]
        /\ UNCHANGED <<pname, precv, clickVars, iterVars>>

\* chatroom.send(message, from, to), called on the chatroom directly
Send(r, msg, from, to) ==
    \E out \in { SendCalls(ChatState, r, msg, from, to) } :
        /\ participants' = out.participants
        /\ pchatroom' = out.pchatroom
        /\ lastReg' = out.lastReg
        /\ lastRoom' = out.lastRoom
        /\ received' = out.received
        /\ chatErr' = out.err
        /\ chatOp' = [NoOp EXCEPT !.op = "send", !.room = r, !.p = from, !.msg = msg,
                                  !.to = to, !.pre = participants[r]]
        /\ UNCHANGED <<pname, precv, clickVars, iterVars>>

\* participant.send(message, to): this.chatroom.send(message, this, to), which
\* fails on the null chatroom of a participant that was never registered
ParticipantSend(p, msg, to) ==
    IF pchatroom[p] = Null
    THEN /\ received' = <<>>
         /\ chatErr' = "TypeError"
         /\ chatOp' = [NoOp EXCEPT !.op = "psend", !.p = p, !.msg = msg, !.to = to]
         /\ UNCHANGED <<pname, pchatroom, participants, precv, lastReg, lastRoom, clickVars, iterVars>>
    ELSE Send(pchatroom[p].room, msg, p, to)

\* chatroom.unregister(identity): the object Chatroom() returns has the members
\* register and send only, so the call raises "unregister is not a function"
Unregister(r, k) ==
    /\ received' = <<>>
    /\ chatErr' = "TypeError"
    /\ chatOp' = [NoOp EXCEPT !.op = "unregister", !.room = r, !.key = k,
                              !.pre = participants[r]]
    /\ UNCHANGED <<pname, pchatroom, participants, precv, lastReg, lastRoom, clickVars, iterVars>>

Targets == {Undefined, Null} \cup { Ref(i) : i \in Objs }

\* the state after new Chatroom() for every room and new Participant(name) for
\* every participant, whatever the cast and the receive methods are
Constructed ==
    /\ pchatroom = [i \in 1 .. MaxParticipants |-> Null]
    /\ participants = [r \in Rooms |-> <<>>]
    /\ lastReg = [r \in Rooms |-> [n \in Names |-> 0]]
    /\ lastRoom = [i \in 1 .. MaxParticipants |-> Null]
    /\ received = <<>>
    /\ chatErr = "none"
    /\ chatOp = NoOp

ChatInit ==
    /\ pname \in Casts
    /\ precv = [i \in 1 .. MaxParticipants |-> Log]
    /\ Constructed

ChatIdle ==
    /\ pname = [i \in 1 .. MaxParticipants |-> NameList[1]]
    /\ precv = [i \in 1 .. MaxParticipants |-> Log]
    /\ Constructed

\* run() uses one chatroom
OneRoom == { "r1" }

ChatNext ==
    \/ \E r \in OneRoom, p \in Objs : Register(r, p)
    \/ \E r \in OneRoom, m \in Msgs, from \in Objs, to \in Targets : Send(r, m, from, to)
    \/ \E p \in Objs, m \in Msgs, to \in Targets : ParticipantSend(p, m, to)
    \/ \E r \in OneRoom, k \in Names : Unregister(r, k)

\* the receive methods of a program in which one participant's receive throws
\* or registers a participant with the chatroom, and the others log
ReceiveMethods ==
    { Log, Throw } \cup { RegisterOn("r1", p) : p \in 1 .. MaxParticipants }

RecvInit ==
    /\ pname = SharedNameCast
    /\ precv \in { [i \in 1 .. MaxParticipants |-> IF i = q THEN b ELSE Log] :
                     q \in 1 .. MaxParticipants, b \in ReceiveMethods }
    /\ Constructed

RecvNext ==
    \/ \E p \in Objs : Register("r1", p)
    \/ \E m \in Msgs, from \in Objs, to \in Targets : Send("r1", m, from, to)

RoomsInit ==
    /\ pname = SharedNameCast
    /\ precv = [i \in 1 .. MaxParticipants |-> Log]
    /\ Constructed

\* the calls of a program with two chatrooms, whose participants send through
\* their own send method
RoomsNext ==
    \/ \E r \in Rooms, p \in Objs : Register(r, p)
    \/ \E p \in Objs, to \in Targets : ParticipantSend(p, "m1", to)

\* the receive methods of a program in which the receive of one participant q
\* sends a message of its own, as a broadcast or to another participant, through
\* either chatroom; the others log
SendingMethods(q) ==
    { SendOn(r, to) : r \in Rooms,
                      to \in {Undefined} \cup { Ref(i) : i \in (1 .. MaxParticipants) \ {q} } }

ReentrantInit ==
    /\ pname = SharedNameCast
    /\ \E q \in 1 .. MaxParticipants : \E b \in SendingMethods(q) :
          precv = [i \in 1 .. MaxParticipants |-> IF i = q THEN b ELSE Log]
    /\ Constructed

ReentrantNext ==
    \/ \E r \in Rooms, p \in Objs : Register(r, p)
    \/ \E from \in Objs : Send("r1", "m1", from, Undefined)

----------------------------------------------------------------------------
(* Click: the subscription list of observer.js *)

Functions == { Fn("f"), Fn("g") }

\* functions whose bodies call back into the Click object, or throw
ReentrantFunctions == { Fn("offSelf"), Fn("offF"), Fn("onF"), Fn("boom") }

AllFunctions == Functions \cup ReentrantFunctions

\* the values a caller passes to subscribe and unsubscribe: functions, null and 0
HandlerVals == Functions \cup { Null, Zero }

Events == { "e1", "e2" }

\* the values a caller passes as fire's second argument, Undefined when it is omitted
ThisArgs == { Undefined, Zero, CtxObj }

\* What a handler does when it is called.  f and g are run()'s clickHandler, which
\* logs; the others are handlers a client may subscribe:
\*   offSelf: function h() { click.unsubscribe(h); }
\*   offF:    function ()  { click.unsubscribe(f); }
\*   onF:     function ()  { click.subscribe(f); }
\*   boom:    function ()  { throw new Error(); }
Body(fn) ==
    CASE fn.id \in {"f", "g"} -> [do |-> "log", arg |-> fn]
      [] fn.id = "offSelf"    -> [do |-> "unsubscribe", arg |-> fn]
      [] fn.id = "offF"       -> [do |-> "unsubscribe", arg |-> Fn("f")]
      [] fn.id = "onF"        -> [do |-> "subscribe", arg |-> Fn("f")]
      [] fn.id = "boom"       -> [do |-> "throw", arg |-> fn]

\* item !== fn
StrictNotEqual(item, fn) == item # fn

\* the callback handed to filter: it returns item when item !== fn and
\* undefined otherwise
FilterCallback(item, fn) == IF StrictNotEqual(item, fn) THEN item ELSE Undefined

\* a filter whose result is dropped instead of assigned to this.handlers
FilterNotAssigned(hs, fn) == hs

\* this.handlers.filter(callback): keeps the items whose callback result is truthy
FilterHandlers(hs, fn) == SelectSeq(hs, LAMBDA item : Truthy(FilterCallback(item, fn)))

\* a fallback to the global object only when the argument is omitted
ScopeIfProvided(thisObj) == IF thisObj # Undefined THEN thisObj ELSE GlobalObj

\* var scope = thisObj || global || window, under Node
Scope(thisObj) == IF Truthy(thisObj) THEN thisObj ELSE GlobalObj

\* item.call(scope, o) on a function, recorded as a call
Invoke(item, scope, o) == [fn |-> item, scope |-> scope, arg |-> o]

\* a push that skips a value the array already holds
PushIfAbsent(hs, fn) == IF Count(fn, hs) > 0 THEN hs ELSE Append(hs, fn)

\* this.handlers.push(fn)
Push(hs, fn) == Append(hs, fn)

(* The Click object while fire runs.  handlers is this.handlers, arr the array *)
(* forEach was called on, same whether this.handlers is still that array       *)
(* object; calls and err are what the pass did so far, since and ever the      *)
(* subscription history.                                                       *)
ClickState(hs, since, ever) ==
    [handlers |-> hs, arr |-> hs, same |-> TRUE, calls |-> <<>>, err |-> "none",
     since |-> since, ever |-> ever]

\* the subscription history after subscribe(fn)
SinceSubscribe(since, fn) ==
    IF fn \in AllFunctions THEN [since EXCEPT ![fn] = @ + 1] ELSE since

\* the subscription history after unsubscribe(fn)
SinceUnsubscribe(since, fn) ==
    IF fn \in AllFunctions THEN [since EXCEPT ![fn] = 0] ELSE since

\* subscribe(fn) called while forEach runs: push changes the array in place, so
\* the iterated array grows too while this.handlers is still that array
SubscribeIn(st, fn) ==
    [st EXCEPT !.handlers = Push(@, fn),
               !.arr = IF st.same THEN Push(@, fn) ELSE @,
               !.since = SinceSubscribe(@, fn)]

\* an unsubscribe that removes the entries from the array in place (splice)
UnsubscribeInPlace(st, fn) ==
    [st EXCEPT !.handlers = FilterHandlers(@, fn),
               !.arr = IF st.same THEN FilterHandlers(@, fn) ELSE @,
               !.since = SinceUnsubscribe(@, fn),
               !.ever = @ \cup ({fn} \cap AllFunctions)]

\* unsubscribe(fn) called while forEach runs: filter builds a new array and
\* this.handlers is set to it; the iterated array is left as it is
UnsubscribeIn(st, fn) ==
    [st EXCEPT !.handlers = FilterHandlers(@, fn),
               !.same = FALSE,
               !.since = SinceUnsubscribe(@, fn),
               !.ever = @ \cup ({fn} \cap AllFunctions)]

\* function (item) { item.call(scope, o); } on a function item: the call and what
\* the body of item does; what it throws leaves the callback
CallHandler(item, scope, o, st) ==
    LET called == [st EXCEPT !.calls = Append(@, Invoke(item, scope, o))]
        body == Body(item)
    IN  CASE body.do = "log"         -> called
          [] body.do = "unsubscribe" -> UnsubscribeIn(called, body.arg)
          [] body.do = "subscribe"   -> SubscribeIn(called, body.arg)
          [] body.do = "throw"       -> [called EXCEPT !.err = "Error"]

\* a loop that reads the length of the array again on every round
LiveLength(len, st) == Len(st.arr)

\* forEach reads the length of the array once, before the first callback
LoopLength(len, st) == len

\* Array.prototype.forEach from index k on: an index that is no longer in the
\* array is skipped, a value that is not callable raises a TypeError, and an
\* error ends the loop
RECURSIVE ForEachFrom(_, _, _, _, _)
ForEachFrom(k, len, st, scope, o) ==
    IF k > LoopLength(len, st) \/ st.err # "none" THEN st
    ELSE IF k > Len(st.arr) THEN ForEachFrom(k + 1, len, st, scope, o)
    ELSE IF ~Callable(st.arr[k]) THEN [st EXCEPT !.err = "TypeError"]
    ELSE ForEachFrom(k + 1, len, CallHandler(st.arr[k], scope, o, st), scope, o)

\* a loop that takes every handler out of this.handlers as it calls it
ForEachShift(st, scope, o) ==
    LET out == ForEachFrom(1, Len(st.arr), st, scope, o)
    IN  [out EXCEPT !.handlers = SubSeq(@, Len(out.calls) + 1, Len(@))]

\* this.handlers.forEach(function (item) { item.call(scope, o); })
ForEachCall(st, scope, o) == ForEachFrom(1, Len(st.arr), st, scope, o)

ClickNoOp == [op |-> "init", fn |-> Undefined, ev |-> "e1", thisObj |-> Undefined,
              pre |-> <<>>]

\* click.subscribe(fn)
Subscribe(fn) ==
    /\ Len(handlers) < MaxHandlers
    /\ handlers' = Push(handlers, fn)
    /\ calls' = <<>>
    /\ clickErr' = "none"
    /\ clickOp' = [ClickNoOp EXCEPT !.op = "subscribe", !.fn = fn, !.pre = handlers]
    /\ sinceUnsub' = SinceSubscribe(sinceUnsub, fn)
    /\ UNCHANGED <<everUnsub, chatVars, iterVars>>

\* click.unsubscribe(fn)
Unsubscribe(fn) ==
    /\ handlers' = FilterHandlers(handlers, fn)
    /\ calls' = <<>>
    /\ clickErr' = "none"
    /\ clickOp' = [ClickNoOp EXCEPT !.op = "unsubscribe", !.fn = fn, !.pre = handlers]
    /\ sinceUnsub' = SinceUnsubscribe(sinceUnsub, fn)
    /\ everUnsub' = everUnsub \cup ({fn} \cap AllFunctions)
    /\ UNCHANGED <<chatVars, iterVars>>

\* click.fire(o, thisObj); the handlers subscribed during the pass stay within
\* the bound of the model
Fire(o, thisObj) ==
    \E out \in { ForEachCall(ClickState(handlers, sinceUnsub, everUnsub),
                              Scope(thisObj), o) } :
        /\ Len(out.handlers) <= MaxHandlers
        /\ handlers' = out.handlers
        /\ calls' = out.calls
        /\ clickErr' = out.err
        /\ clickOp' = [ClickNoOp EXCEPT !.op = "fire", !.ev = o, !.thisObj = thisObj,
                                        !.pre = handlers]
        /\ sinceUnsub' = out.since
        /\ everUnsub' = out.ever
        /\ UNCHANGED <<chatVars, iterVars>>

\* new Click()
ClickInit ==
    /\ handlers = <<>>
    /\ calls = <<>>
    /\ clickErr = "none"
    /\ clickOp = ClickNoOp
    /\ sinceUnsub = [f \in AllFunctions |-> 0]
    /\ everUnsub = {}

ClickNext ==
    \/ \E fn \in HandlerVals : Subscribe(fn)
    \/ \E fn \in HandlerVals : Unsubscribe(fn)
    \/ \E o \in Events, thisObj \in ThisArgs : Fire(o, thisObj)

\* the calls of a client whose handlers call back into the Click object or throw
HandlersNext ==
    \/ \E fn \in {Fn("f")} \cup ReentrantFunctions : Subscribe(fn)
    \/ Unsubscribe(Fn("f"))
    \/ \E o \in Events : Fire(o, Undefined)

----------------------------------------------------------------------------
(* Iterator: the cursor over an array of iterator.js *)

\* values as run() puts them in its array, and undefined, which an array may hold
ItemVals == { [t |-> "string", v |-> "one"], [t |-> "number", v |-> 2], Undefined }

\* the arrays of at most MaxItems elements
ItemLists == UNION { [1 .. n -> ItemVals] : n \in 0 .. MaxItems }

\* this.items[i]: the element at the 0-based index i, undefined past the end
ItemAt(its, i) == IF i < Len(its) THEN its[i + 1] ELSE Undefined

\* a test that is true while an element is left to fetch
IndexBeforeEnd(i, its) == i < Len(its)

\* hasNext: this.index <= this.items.length
IndexInRange(i, its) == i <= Len(its)

\* one fetch: the index that was read and the value found there
Fetched(its, i) == [i |-> i, v |-> ItemAt(its, i)]

\* The turns of for (item = first(); hasNext(); item = next()) body(item) that
\* are left when the index is i and item holds the fetch `item`: the fetches
\* the body is called with.
RECURSIVE LoopFrom(_, _, _)
LoopFrom(its, i, item) ==
    IF IndexInRange(i, its)
    THEN <<item>> \o LoopFrom(its, i + 1, Fetched(its, i))
    ELSE <<>>

\* the index the loop leaves: each turn's next() adds one to it
RECURSIVE LoopEnd(_, _)
LoopEnd(its, i) == IF IndexInRange(i, its) THEN LoopEnd(its, i + 1) ELSE i

IterNoOp == [op |-> "init", pre |-> 0, had |-> TRUE, ret |-> Fetched(<<>>, 0), out |-> <<>>]

\* iter.first(): reset, then next
First ==
    /\ index' = 1
    /\ iterOp' = [IterNoOp EXCEPT !.op = "first", !.pre = index,
                                  !.had = IndexInRange(index, items),
                                  !.ret = Fetched(items, 0)]
    /\ UNCHANGED <<items, chatVars, clickVars>>

\* iter.next(): return this.items[this.index++]; the index stays within the
\* bound of the model
IterNext ==
    /\ index <= MaxItems
    /\ index' = index + 1
    /\ iterOp' = [IterNoOp EXCEPT !.op = "next", !.pre = index,
                                  !.had = IndexInRange(index, items),
                                  !.ret = Fetched(items, index)]
    /\ UNCHANGED <<items, chatVars, clickVars>>

\* iter.hasNext()
HasNext ==
    /\ iterOp' = [IterNoOp EXCEPT !.op = "hasNext", !.pre = index,
                                  !.had = IndexInRange(index, items)]
    /\ UNCHANGED <<items, index, chatVars, clickVars>>

\* iter.reset()
Reset ==
    /\ index' = 0
    /\ iterOp' = [IterNoOp EXCEPT !.op = "reset", !.pre = index,
                                  !.had = IndexInRange(index, items)]
    /\ UNCHANGED <<items, chatVars, clickVars>>

\* the loop of each and of run(): first() leaves the index at 1
Traverse(name) ==
    /\ index' = LoopEnd(items, 1)
    /\ iterOp' = [IterNoOp EXCEPT !.op = name, !.pre = index,
                                  !.had = IndexInRange(index, items),
                                  !.out = LoopFrom(items, 1, Fetched(items, 0))]
    /\ UNCHANGED <<items, chatVars, clickVars>>

\* iter.each(callback)
Each == Traverse("each")

\* for (var item = iter.first(); iter.hasNext(); item = iter.next()) { ... }
ForLoop == Traverse("loop")

\* the iterator of a program that does not use one
IterIdle ==
    /\ items = <<>>
    /\ index = 0
    /\ iterOp = IterNoOp

\* new Iterator(items)
IterInit ==
    /\ items \in ItemLists
    /\ index = 0
    /\ iterOp = IterNoOp

IterStep ==
    \/ First
    \/ IterNext
    \/ HasNext
    \/ Reset
    \/ Each
    \/ ForLoop

----------------------------------------------------------------------------
(* The two programs: one drives a Chatroom, the other a Click list *)

InitChat == ChatInit /\ ClickInit /\ IterIdle

SpecChat == InitChat /\ [][ChatNext]_vars

InitClick == ClickInit /\ ChatIdle /\ IterIdle

SpecClick == InitClick /\ [][ClickNext]_vars

SpecHandlers == InitClick /\ [][HandlersNext]_vars

InitRecv == RecvInit /\ ClickInit /\ IterIdle

SpecRecv == InitRecv /\ [][RecvNext]_vars

InitRooms == RoomsInit /\ ClickInit /\ IterIdle

SpecRooms == InitRooms /\ [][RoomsNext]_vars

InitReentrant == ReentrantInit /\ ClickInit /\ IterIdle

SpecReentrant == InitReentrant /\ [][ReentrantNext]_vars

InitIter == IterInit /\ ChatIdle /\ ClickInit

SpecIter == InitIter /\ [][IterStep]_vars

\* A program that drives either a Chatroom or a Click list: it goes on with the
\* one it has started to use, and the participants of a program that uses the
\* Click list keep the stock receive.
DispatchNext ==
    \/ clickOp = ClickNoOp /\ RecvNext
    \/ chatOp = NoOp /\ precv = [i \in 1 .. MaxParticipants |-> Log] /\ HandlersNext

SpecDispatch == InitRecv /\ [][DispatchNext]_vars

----------------------------------------------------------------------------
(* Properties of the Chatroom, checked under SpecChat *)

\* the participant objects room r's registry holds
Registered(reg) == { reg[i][2] : i \in DOMAIN reg }

\* how many of the latest operation's receive calls were made on q
ReceiveCount(q) == Cardinality({ i \in DOMAIN received : received[i].to = q })

\* the recipients of the latest operation, in call order
Recipients == [i \in DOMAIN received |-> received[i].to]

\* the latest operation was a broadcast: chatroom.send(msg, from) without a target
IsBroadcast == chatOp.op = "send" /\ chatOp.to = Undefined

\* the latest operation was a unicast: chatroom.send(msg, from, to) with a participant
IsUnicast == chatOp.op = "send" /\ chatOp.to \in { Ref(i) : i \in Objs }

\* C1: a broadcast send(message, A) from a registered participant A invokes
\* receive(message, A) exactly once on every other participant in the registry,
\* and never on A or on a participant that is not in the registry.
C1_BroadcastOnceToOthers ==
    (IsBroadcast /\ chatOp.p \in Registered(participants[chatOp.room])) =>
        /\ \A q \in Objs :
              ReceiveCount(q) =
                  IF q \in Registered(participants[chatOp.room]) /\ q # chatOp.p
                  THEN 1 ELSE 0
        /\ \A i \in DOMAIN received :
              received[i].msg = chatOp.msg /\ received[i].from = chatOp.p
        /\ chatErr = "none"

\* a broadcast from a registered sender among three registered participants
C1_Witness ==
    /\ IsBroadcast
    /\ chatOp.p \in Registered(participants[chatOp.room])
    /\ Len(participants[chatOp.room]) = 3
    /\ Len(received) = 2

\* C2: a unicast send(msg, A, B) invokes B.receive(msg, A) exactly once and no other
\* receive, whether or not A or B is registered, and leaves the registry as it was;
\* the outcome is the same for every content of the registry.
C2_UnicastOnlyTarget ==
    IsUnicast =>
        /\ received = << [to |-> chatOp.to.id, msg |-> chatOp.msg, from |-> chatOp.p] >>
        /\ participants[chatOp.room] = chatOp.pre
        /\ chatErr = "none"

\* a unicast between two participants that are not registered, while a third one is
C2_Witness ==
    /\ IsUnicast
    /\ chatOp.to.id # chatOp.p
    /\ chatOp.to.id \notin Registered(participants[chatOp.room])
    /\ chatOp.p \notin Registered(participants[chatOp.room])
    /\ participants[chatOp.room] # <<>>
    /\ Len(received) = 1

\* the latest operation registered a participant under a name that another
\* participant object was registered under
IsReplacement ==
    /\ chatOp.op = "register"
    /\ HasKey(chatOp.pre, chatOp.key)
    /\ Get(chatOp.pre, chatOp.key) # chatOp.p

\* the place of key k in the broadcast order of reg
BroadcastPosition(reg, k) ==
    CHOOSE i \in DOMAIN ForInKeys(reg) : ForInKeys(reg)[i] = k

\* C4: registering a second participant under an already registered name replaces
\* the first in place: one entry for the name, holding the second participant, at
\* the place in the broadcast order the first one had, the other entries as they
\* were, and no error.
C4_ReplaceInPlace ==
    IsReplacement =>
        LET reg == participants[chatOp.room]
        IN  /\ Cardinality({ i \in DOMAIN reg : reg[i][1] = chatOp.key }) = 1
            /\ Get(reg, chatOp.key) = chatOp.p
            /\ BroadcastPosition(reg, chatOp.key) =
                   BroadcastPosition(chatOp.pre, chatOp.key)
            /\ ForInKeys(reg) = ForInKeys(chatOp.pre)
            /\ \A k \in Keys(chatOp.pre) \ {chatOp.key} :
                   Get(reg, k) = Get(chatOp.pre, k)
            /\ chatErr = "none"

\* a replacement of the first of two entries of the broadcast order
C4_Witness ==
    /\ IsReplacement
    /\ Len(chatOp.pre) = 2
    /\ BroadcastPosition(chatOp.pre, chatOp.key) = 1
    /\ chatOp.pre[1][1] = chatOp.key

\* C5: unregister(identity) raises no error and leaves a registry without an entry
\* for that identity, which is the registry as it was when the identity was absent.
C5_UnregisterRemoves ==
    chatOp.op = "unregister" =>
        /\ chatErr = "none"
        /\ ~HasKey(participants[chatOp.room], chatOp.key)
        /\ (~HasKey(chatOp.pre, chatOp.key) => participants[chatOp.room] = chatOp.pre)

\* the registered participants other than p, in the order their names were first
\* registered
FirstRegistrationOrder(reg, p) ==
    LET vals == [i \in DOMAIN reg |-> reg[i][2]]
    IN  SelectSeq(vals, LAMBDA q : q # p)

\* C6: a broadcast invokes its recipients in the order in which their names were
\* first registered, whatever the names are.
C6_BroadcastInRegistrationOrder ==
    IsBroadcast =>
        Recipients = FirstRegistrationOrder(participants[chatOp.room], chatOp.p)

\* C7: a broadcast skips the entry registered under the sender's name, also when
\* the sender is not the object that entry holds.
C7_BroadcastSkipsSenderName ==
    IsBroadcast =>
        \A i \in DOMAIN received : pname[received[i].to] # pname[chatOp.p]

----------------------------------------------------------------------------
(* Properties of the Click list, checked under SpecClick *)

\* how many of the latest fire's invocations were of h with the event o
InvokeCount(h, o) ==
    Cardinality({ i \in DOMAIN calls : calls[i].fn = h /\ calls[i].arg = o })

\* the latest operation was a fire that returned to its caller
FireReturned == clickOp.op = "fire" /\ clickErr = "none"

\* C3: a fire(e) that returns invokes a function h with e exactly once when h was
\* subscribed once since its latest unsubscribe, and no fire invokes h when no
\* subscribe of h followed its latest unsubscribe; this holds again after every
\* unsubscribe.
C3_SubscribedOnceFiresOnce ==
    clickOp.op = "fire" =>
        \A h \in Functions :
            /\ (FireReturned /\ sinceUnsub[h] = 1) => InvokeCount(h, clickOp.ev) = 1
            /\ sinceUnsub[h] = 0 => \A i \in DOMAIN calls : calls[i].fn # h
            /\ \A i \in DOMAIN calls : calls[i].fn = h => calls[i].arg = clickOp.ev

\* a fire that invokes f, subscribed again after an unsubscribe, and not g, whose
\* latest membership operation was an unsubscribe
C3_Witness ==
    /\ FireReturned
    /\ Fn("f") \in everUnsub /\ sinceUnsub[Fn("f")] = 1
    /\ Fn("g") \in everUnsub /\ sinceUnsub[Fn("g")] = 0
    /\ InvokeCount(Fn("f"), clickOp.ev) = 1
    /\ Len(calls) = 1

\* C8: subscribe(h) appends one entry at the end of the list, also when h is in
\* it; a fire over a list of functions invokes every entry once, in list order,
\* with the event, so a function subscribed k times since its latest unsubscribe
\* is invoked k times.
C8_SubscribeAppendsFireInOrder ==
    /\ clickOp.op = "subscribe" => handlers = clickOp.pre \o <<clickOp.fn>>
    /\ (clickOp.op = "fire" /\ \A i \in DOMAIN handlers : handlers[i] \in Functions) =>
          /\ Len(calls) = Len(handlers)
          /\ \A i \in DOMAIN calls :
                calls[i].fn = handlers[i] /\ calls[i].arg = clickOp.ev
          /\ \A h \in Functions : InvokeCount(h, clickOp.ev) = sinceUnsub[h]
          /\ clickErr = "none"

\* a fire over three entries, two of them the same function
C8_Witness ==
    /\ clickOp.op = "fire"
    /\ handlers = << Fn("f"), Fn("g"), Fn("f") >>
    /\ sinceUnsub[Fn("f")] = 2
    /\ Len(calls) = 3

\* C9: unsubscribe(h) of a value that is not in the list leaves the list as it was
\* and raises no error.
C9_UnsubscribeAbsentNoOp ==
    (clickOp.op = "unsubscribe" /\ Count(clickOp.fn, clickOp.pre) = 0) =>
        handlers = clickOp.pre /\ clickErr = "none"

\* C10: unsubscribe(h) leaves exactly the entries that are not equal to h, whatever
\* their values, in their order.
C10_UnsubscribeRemovesOnlyEqual ==
    clickOp.op = "unsubscribe" =>
        handlers = SelectSeq(clickOp.pre, LAMBDA item : item # clickOp.fn)

----------------------------------------------------------------------------
(* Properties of a Click list whose handlers call back into it, checked under *)
(* SpecHandlers; scope binding, checked under SpecClick                        *)

\* the functions the latest fire invoked, in call order
FnsCalled == [i \in DOMAIN calls |-> calls[i].fn]

\* the list the latest fire started on held functions that do not throw, one of
\* them v
StartedWith(v) ==
    /\ clickOp.op = "fire"
    /\ \A i \in DOMAIN clickOp.pre : clickOp.pre[i] \in AllFunctions \ {Fn("boom")}
    /\ \E i \in DOMAIN clickOp.pre : clickOp.pre[i] = v

\* C11: when a handler unsubscribes itself or another handler during fire, every
\* handler that was in the list when the fire started is still invoked exactly
\* once in that pass, and a handler that was unsubscribed and not subscribed
\* again is in no list a later fire starts on.
C11_UnsubscribeDuringFire ==
    /\ (StartedWith(Fn("offSelf")) \/ StartedWith(Fn("offF"))) =>
          FnsCalled = clickOp.pre /\ clickErr = "none"
    /\ \A h \in AllFunctions : sinceUnsub[h] = 0 => Count(h, handlers) = 0

\* a pass in which the first handler unsubscribed itself and the second one f,
\* with f behind them in the list
C11_Witness ==
    /\ clickOp.op = "fire"
    /\ clickOp.pre = << Fn("offSelf"), Fn("offF"), Fn("f") >>
    /\ handlers = << Fn("offF") >>
    /\ Len(calls) = 3

\* C12: fire dispatches against the list as it was when it was invoked: it invokes
\* entries of that list only, in its order, and a function subscribed by a handler
\* during the pass is not invoked in that pass but is in the list afterwards, so
\* that the next fire invokes it.
C12_SubscribeDuringFire ==
    /\ clickOp.op = "fire" =>
          /\ Len(calls) <= Len(clickOp.pre)
          /\ \A i \in DOMAIN calls : calls[i].fn = clickOp.pre[i]
    /\ StartedWith(Fn("onF")) =>
          /\ FnsCalled = clickOp.pre
          /\ (\A i \in DOMAIN clickOp.pre : clickOp.pre[i] \in {Fn("onF"), Fn("f")}) =>
                handlers = clickOp.pre \o
                    [i \in 1 .. Count(Fn("onF"), clickOp.pre) |-> Fn("f")]

\* the fire after onF subscribed f: f is invoked, and subscribed once more
C12_Witness ==
    /\ clickOp.op = "fire"
    /\ clickOp.pre = << Fn("onF"), Fn("f") >>
    /\ FnsCalled = << Fn("onF"), Fn("f") >>
    /\ handlers = << Fn("onF"), Fn("f"), Fn("f") >>

\* C13: when a handler raises an exception during fire, the handlers after it are
\* still invoked and fire returns to its caller without an error.
C13_HandlerFailureIsolated ==
    (clickOp.op = "fire" /\ \A i \in DOMAIN clickOp.pre : clickOp.pre[i] \in AllFunctions) =>
        Len(calls) = Len(clickOp.pre) /\ clickErr = "none"

\* C19: fire invokes every handler with the scope the caller passed whenever one
\* was passed, and with the default context only when none was passed.
C19_ScopeWheneverProvided ==
    clickOp.op = "fire" =>
        \A i \in DOMAIN calls : calls[i].scope = ScopeIfProvided(clickOp.thisObj)

\* C14: delivery to a null recipient raises to the caller and delivers to no one:
\* a send whose target is null raises to send's caller without any receive call,
\* and a fire over a list that holds a null handler raises to fire's caller.
C14_NullRecipientRaises ==
    /\ (chatOp.op = "send" /\ chatOp.to = Null) =>
          chatErr # "none" /\ received = <<>>
    /\ (clickOp.op = "fire" /\ \E i \in DOMAIN clickOp.pre : clickOp.pre[i] = Null) =>
          clickErr # "none"

\* C17: after any sequence of register and send calls, every room's registry holds
\* at most one entry per name, each entry's key is the name of the participant it
\* holds, and that participant is the one register was last called with under
\* that name on that room.
C17_OneEntryPerName ==
    \A r \in Rooms :
        LET reg == participants[r]
        IN  /\ \A i, j \in DOMAIN reg : reg[i][1] = reg[j][1] => i = j
            /\ \A i \in DOMAIN reg :
                  /\ reg[i][1] = pname[reg[i][2]]
                  /\ reg[i][2] = lastReg[r][reg[i][1]]
            /\ \A n \in Names : lastReg[r][n] # 0 => HasKey(reg, n)

\* a second participant was registered under a name the registry already held
C17_Witness ==
    /\ chatOp.op = "register"
    /\ HasKey(chatOp.pre, chatOp.key)
    /\ Get(chatOp.pre, chatOp.key) # chatOp.p
    /\ Len(participants[chatOp.room]) = 2
    /\ Get(participants[chatOp.room], chatOp.key) = chatOp.p

\* the latest operation called the receive of a participant whose receive throws
CalledThrowing == \E i \in DOMAIN received : precv[received[i].to] = Throw

\* the latest operation called a receive that registers a participant
CalledRegistering == \E i \in DOMAIN received : precv[received[i].to].do = "register"

\* C15: an error raised by a recipient's receive during a send, unicast or
\* broadcast, reaches send's caller: the throwing call is the last call send
\* makes, send raises the error, and the registry holds the entries it held
\* before the send, in the same order.
C15_ReceiveErrorPropagates ==
    (chatOp.op = "send" /\ CalledThrowing) =>
        /\ chatErr = "Error"
        /\ precv[received[Len(received)].to] = Throw
        /\ \A i \in 1 .. Len(received) - 1 : precv[received[i].to] # Throw
        /\ ~CalledRegistering => participants[chatOp.room] = chatOp.pre

\* a broadcast that stopped at the first of two recipients, whose receive threw
C15_Witness ==
    /\ IsBroadcast
    /\ chatErr = "Error"
    /\ Len(received) = 1
    /\ Cardinality(Registered(chatOp.pre) \ {chatOp.p}) = 2
    /\ participants[chatOp.room] = chatOp.pre

\* C16: a broadcast delivers against the registry as it was when send was called:
\* when no receive throws, every participant that was in the registry at the
\* start, other than the sender, receives the message exactly once, and a
\* participant that was not in it at the start does not receive it.
C16_BroadcastAgainstSnapshot ==
    (IsBroadcast /\ chatErr = "none") =>
        /\ \A q \in Registered(chatOp.pre) \ {chatOp.p} : ReceiveCount(q) = 1
        /\ \A q \in Objs \ Registered(chatOp.pre) : ReceiveCount(q) = 0

\* C20: participant.send(message, to) dispatches through the chatroom the
\* participant was most recently registered with, with itself as sender: the
\* back-link of every participant is the room of its latest registration, a
\* send goes through that room's registry only (a broadcast reaches every
\* participant that registry holds, except the sender, once, and nobody else),
\* and the send of a participant that was never registered raises an error
\* without any receive call.
C20_SendThroughLatestRoom ==
    /\ \A p \in Objs : pchatroom[p] = lastRoom[p]
    /\ chatOp.op = "send" =>
          /\ Room(chatOp.room) = lastRoom[chatOp.p]
          /\ \A i \in DOMAIN received : received[i].from = chatOp.p
          /\ IsBroadcast =>
                \A q \in Objs :
                    ReceiveCount(q) =
                        IF q \in Registered(participants[lastRoom[chatOp.p].room]) \ {chatOp.p}
                        THEN 1 ELSE 0
    /\ chatOp.op = "psend" =>
          /\ lastRoom[chatOp.p] = Null
          /\ chatErr = "TypeError"
          /\ received = <<>>

\* a participant registered with r1 and then with r2 broadcasts: the message
\* reaches r2's registry and not the participant that only r1 holds
C20_Witness ==
    /\ IsBroadcast
    /\ chatOp.room = "r2"
    /\ chatOp.p \in Registered(participants["r1"])
    /\ \E q \in Registered(participants["r1"]) \ Registered(participants["r2"]) :
          q # chatOp.p /\ ReceiveCount(q) = 0
    /\ \E q \in Registered(participants["r2"]) : ReceiveCount(q) = 1

\* the latest fire called a handler that subscribes or unsubscribes
CalledMembership ==
    \E i \in DOMAIN calls :
        calls[i].fn \in AllFunctions /\ Body(calls[i].fn).do \in {"subscribe", "unsubscribe"}

\* C18: dispatch does not change membership and retains no message: a fire none
\* of whose handlers subscribes or unsubscribes leaves the handler list as it
\* was, a send none of whose recipients registers leaves the registry as it was,
\* every delivery of a send or fire carries the message or event of that very
\* call, and an operation other than send or fire delivers nothing.
C18_DispatchKeepsMembership ==
    /\ chatOp.op = "send" =>
          /\ ~CalledRegistering => participants[chatOp.room] = chatOp.pre
          /\ \A i \in DOMAIN received : received[i].msg = chatOp.msg
    /\ chatOp.op # "send" => received = <<>>
    /\ clickOp.op = "fire" =>
          /\ ~CalledMembership => handlers = clickOp.pre
          /\ \A i \in DOMAIN calls : calls[i].arg = clickOp.ev
    /\ clickOp.op # "fire" => calls = <<>>

\* a broadcast of "m2" delivered to two participants, the registry as before
C18_Witness ==
    /\ IsBroadcast
    /\ chatOp.msg = "m2"
    /\ Len(received) = 2
    /\ participants[chatOp.room] = chatOp.pre

\* the receive calls of the latest operation that carry its own message
OuterCount(q) ==
    Cardinality({ i \in DOMAIN received :
                    /\ received[i].to = q
                    /\ received[i].msg = chatOp.msg
                    /\ received[i].from = chatOp.p })

\* the latest operation called a receive that sends
CalledSending == \E i \in DOMAIN received : precv[received[i].to].do = "send"

\* C21: when a recipient's receive itself calls send during a broadcast, the
\* broadcast still returns without an error and delivers its message exactly
\* once to every participant of the registry other than its sender, and to
\* nobody else.
C21_ReentrantSendSafe ==
    (IsBroadcast /\ CalledSending) =>
        /\ chatErr = "none"
        /\ participants[chatOp.room] = chatOp.pre
        /\ \A q \in Objs :
              OuterCount(q) =
                  IF q \in Registered(chatOp.pre) \ {chatOp.p} THEN 1 ELSE 0

\* the first recipient of a broadcast to two participants broadcast a message of
\* its own through the same chatroom, and the second one still got the first
C21_Witness ==
    /\ IsBroadcast
    /\ Len(received) = 3
    /\ precv[received[1].to] = SendOn(chatOp.room, Undefined)
    /\ received[2].msg = ReplyMsg
    /\ received[3].msg = chatOp.msg
    /\ received[3].to # received[1].to

----------------------------------------------------------------------------
(* Properties of the Iterator, checked under SpecIter *)

\* the latest operation was a full traversal: each, or the loop run() writes
IsTraversal == iterOp.op \in {"each", "loop"}

\* C22: each(callback), and the loop for (item = first(); hasNext(); item =
\* next()), calls the body exactly once per element of items, in index order and
\* with that element, and never with a fetch past the end; this holds for the
\* empty array and whatever traversals and other calls came before.
C22_EachVisitsEveryElementOnce ==
    IsTraversal =>
        /\ Len(iterOp.out) = Len(items)
        /\ \A k \in DOMAIN iterOp.out :
              /\ iterOp.out[k].i = k - 1
              /\ iterOp.out[k].v = items[k]

\* each on an iterator that an earlier traversal left past the end of a full array
C22_Witness ==
    /\ iterOp.op = "each"
    /\ Len(items) = MaxItems
    /\ iterOp.pre = Len(items) + 1
    /\ Len(iterOp.out) = MaxItems
    /\ index = Len(items) + 1

\* C23: hasNext() is true exactly when an element is left to fetch, so a next()
\* called while hasNext() is true fetches an element of items, never a value
\* past the end.
C23_HasNextMeansElementLeft ==
    /\ iterOp.op \in {"hasNext", "next"} =>
          (iterOp.had <=> iterOp.pre < Len(items))
    /\ (iterOp.op = "next" /\ iterOp.had) => iterOp.ret.i < Len(items)

====
